---- MODULE Spec2Model ----
(***************************************************************************)
(* Model of app/parser.py of infa-xml-2-excel: parse_xml_bytes (document   *)
(* normalizer, connector ordering, field lineage), map_type_for_db and     *)
(* build_target_sql, detect_transformation_logic.                          *)
(*                                                                         *)
(* Python values: a str is a TLA+ string, None is the value None below, a  *)
(* list / DataFrame is a sequence of records (one record per row), an      *)
(* ElementTree element is a record of its attributes and child lists.      *)
(***************************************************************************)
EXTENDS Integers, Sequences, FiniteSets, TLC

VARIABLES
    pc,          \* position of the call under analysis
    xml_bytes,   \* argument of parse_xml_bytes
    tabs,        \* returned dict of DataFrames
    meta,        \* returned metadata dict
    conn_index,  \* index labels of the sorted Connectors frame before reset_index
    datatype,    \* arguments of map_type_for_db
    precision,
    scale,
    db,
    type_literal,\* value map_type_for_db returns
    target_df,   \* Target Fields frame given to build_target_sql
    target_db,   \* dialect selector given to build_target_sql
    sql,         \* what build_target_sql builds: cols, pk_cols, create, text
    max_lines,   \* argument of detect_transformation_logic
    lines,       \* the bullet lines detect_transformation_logic collects
    examined     \* number of rows its loop has taken from trans_df.iterrows()

vars == <<pc, xml_bytes, tabs, meta, conn_index, datatype, precision, scale, db,
          type_literal, target_df, target_db, sql, max_lines, lines, examined>>

\* the variables of map_type_for_db and build_target_sql calls
mapper_vars == <<datatype, precision, scale, db, type_literal>>
ddl_vars == <<target_df, target_db, sql>>
detect_vars == <<max_lines, lines, examined>>

(***************************************************************************)
(* Python primitives                                                       *)
(***************************************************************************)

\* Python's None; no attribute value of the modelled documents equals it.
None == "<None>"

\* str(v) for v a str or None.
Str(v) == IF v = None THEN "None" ELSE v

\* `v or d` for v a str or None: the empty string and None are falsy.
Or(v, d) == IF v = None \/ v = "" THEN d ELSE v

\* the rows of `rows` at the positions in `keep`, from position i on, in order
RECURSIVE SelectRows(_, _, _)
SelectRows(rows, keep, i) ==
    IF i > Len(rows) THEN << >>
    ELSE (IF i \in keep THEN <<rows[i]>> ELSE << >>) \o SelectRows(rows, keep, i + 1)

\* The strings that occur in the columns the connector sort compares, listed
\* in Python's str order (code point order): space < digits < upper < lower.
StrOrder ==
    << "", "EXP_A", "Expression", "Mapplet", "SQ_A", "Source Definition",
       "T_A", "T_B", "Target Definition", "c1", "c2", "f1", "f2" >>

\* Position of a column value in the order pandas sorts an object column by:
\* strings in str order, missing values (None) last (na_position="last").
StrPos(v) ==
    IF v = None THEN Len(StrOrder) + 1
    ELSE CHOOSE i \in 1..Len(StrOrder) : StrOrder[i] = v

\* Lexicographic order on equal-length integer tuples (sort by several columns).
RECURSIVE LexLess(_, _)
LexLess(a, b) ==
    IF a = << >> THEN FALSE
    ELSE \/ Head(a) < Head(b)
         \/ Head(a) = Head(b) /\ LexLess(Tail(a), Tail(b))

(***************************************************************************)
(* _empty_tabs                                                             *)
(***************************************************************************)

TableNames ==
    { "Overview", "Source Fields", "Target Fields", "Field Lineage",
      "Transformations", "Connectors", "Reader Settings", "Writer Settings",
      "Session Attributes" }

\* every table present, each a DataFrame with no rows
_empty_tabs == [n \in TableNames |-> << >>]

\* the metadata parse_xml_bytes starts from
DefaultMeta ==
    [ target_name    |-> "TARGET_TABLE",
      mapping_name   |-> "",
      workflow_name  |-> "",
      source_headers |-> << >> ]

(***************************************************************************)
(* ElementTree values.  An element is a record of its attributes (str, or  *)
(* None when the attribute is absent) and of its descendant lists by tag.  *)
(* An optional element (the result of find) is NoElem or <<element>>.      *)
(***************************************************************************)

NoElem == << >>

\* findall(elem, tag): elem.findall(".//tag") if elem is not None else []
findall(elem, tag) == IF elem # NoElem THEN elem[1][tag] ELSE << >>

\* findfirst(elem, tag): elem.find(".//tag") if elem is not None else None
findfirst(elem, tag) ==
    IF elem # NoElem
    THEN (IF elem[1][tag] = << >> THEN NoElem ELSE <<elem[1][tag][1]>>)
    ELSE NoElem

\* elem.get("NAME") if elem is not None else ""
NameOrEmpty(elem) == IF elem # NoElem THEN elem[1].NAME ELSE ""

(***************************************************************************)
(* Bounded input documents                                                 *)
(***************************************************************************)

\* longest CONNECTOR list of a modelled mapping
MaxConn == 3

CONNECTOR(fi, ft, ff, ti, tt, tf) ==
    [ FROMINSTANCE |-> fi, FROMINSTANCETYPE |-> ft, FROMFIELD |-> ff,
      TOINSTANCE |-> ti, TOINSTANCETYPE |-> tt, TOFIELD |-> tf ]

\* Connector elements: recognised and unrecognised types, absent and empty
\* attributes, equal ranks with different secondary columns, several targets.
ConnectorPool ==
    { CONNECTOR("SQ_A",  "Source Definition", "f1", "EXP_A", "Expression",        "c1"),
      CONNECTOR("SQ_A",  "Source Definition", "f2", "T_A",   "Target Definition", "c2"),
      CONNECTOR("EXP_A", "Expression",        "f1", "T_A",   "Target Definition", "c1"),
      CONNECTOR("EXP_A", "Expression",        "f1", "T_B",   "Target Definition", "c1"),
      CONNECTOR("EXP_A", "Mapplet",           "f1", "T_A",   "Target Definition", "c1"),
      CONNECTOR("SQ_A",  None,                "f1", "T_A",   "Target Definition", "c2"),
      CONNECTOR("SQ_A",  "Source Definition", "f1", "T_A",   None,                None),
      CONNECTOR(None,    "Source Definition", "f1", "EXP_A", "Expression",        "c1") }

\* all sequences over S of length at most n
RECURSIVE SeqsUpTo(_, _)
SeqsUpTo(S, n) ==
    IF n = 0 THEN { << >> }
    ELSE LET shorter == SeqsUpTo(S, n - 1)
         IN  shorter \cup { Append(q, x) : q \in { r \in shorter : Len(r) = n - 1 }, x \in S }

SOURCEFIELD(name, dt, p, s, nl) ==
    [ NAME |-> name, DATATYPE |-> dt, PRECISION |-> p, SCALE |-> s, NULLABLE |-> nl ]

TARGETFIELD(name, dt, p, s, kt, nl) ==
    [ NAME |-> name, DATATYPE |-> dt, PRECISION |-> p, SCALE |-> s,
      KEYTYPE |-> kt, NULLABLE |-> nl ]

\* one source with three fields, two of them with the same name
OneSource ==
    << [ NAME |-> "SQ_A", DATABASETYPE |-> "Oracle",
         SOURCEFIELD |-> << SOURCEFIELD("f1", "varchar2", "10", "0", "NOTNULL"),
                            SOURCEFIELD("f2", "number", "8", "2", None),
                            SOURCEFIELD("f1", "date", "19", "0", None) >> ] >>

TwoTargets ==
    << [ NAME |-> "T_A", DATABASETYPE |-> "Oracle",
         TARGETFIELD |-> << TARGETFIELD("c1", "varchar2", "10", "0", "PRIMARY KEY", "NOTNULL"),
                            TARGETFIELD("c2", "number", "8", "2", "NOT A KEY", None) >> ],
       [ NAME |-> "T_B", DATABASETYPE |-> None,
         TARGETFIELD |-> << TARGETFIELD("c1", "date", None, None, None, "NULL") >> ] >>

\* a target whose NAME attribute is absent
NamelessTarget ==
    << [ NAME |-> None, DATABASETYPE |-> "Oracle",
         TARGETFIELD |-> << TARGETFIELD("c1", "char", "1", None, None, None) >> ] >>

\* CONNECTOR elements of a mapplet: in the folder, outside any MAPPING
MappletConnectors ==
    << CONNECTOR("SQ_A", "Source Definition", "f1", "T_A", "Target Definition", "c1") >>

FOLDER(s, t, mc) == [ NAME |-> "FLD", SOURCE |-> s, TARGET |-> t, MAPPLET_CONNECTOR |-> mc ]

TRANSFORMFIELD(name, pt, expr) ==
    [ NAME |-> name, PORTTYPE |-> pt, DATATYPE |-> "string", PRECISION |-> "10",
      SCALE |-> "0", DEFAULTVALUE |-> None, EXPRESSION |-> expr ]

TransformationPool ==
    { << >>,
      << [ NAME |-> "EXP_A", TYPE |-> "Expression",
           TRANSFORMFIELD |-> << TRANSFORMFIELD("f1", "INPUT", None),
                                 TRANSFORMFIELD("o1", "OUTPUT", "UPPER(TRIM(f1))") >>,
           TABLEATTRIBUTE |-> << [ NAME |-> "Tracing Level", VALUE |-> "Normal" ],
                                 [ NAME |-> "Lookup condition", VALUE |-> "a = b" ] >> ] >> }

\* the MAPPING children of the root: none, or one mapping
MappingPool ==
    { << >> } \cup
    { << [ NAME |-> "m_load", TRANSFORMATION |-> tr, CONNECTOR |-> cs ] >> :
         tr \in TransformationPool, cs \in SeqsUpTo(ConnectorPool, MaxConn) }

\* a workflow with a session whose attribute is given twice
OneWorkflow ==
    << [ NAME |-> "wf_load",
         SESSION |-> << [ NAME |-> "s_load",
                          ATTRIBUTE |-> << [ NAME |-> "Commit Interval", VALUE |-> "10000" ],
                                           [ NAME |-> "Commit Interval", VALUE |-> "500" ] >> ] >> ] >>

\* what surrounds the mapping in a modelled document: <<FOLDER children,
\* WORKFLOW children>>
ContextPool ==
    { << << >>, << >> >>,
      << << FOLDER(<< >>, << >>, MappletConnectors) >>, OneWorkflow >>,
      << << FOLDER(OneSource, TwoTargets, << >>) >>, << >> >>,
      << << FOLDER(OneSource, NamelessTarget, MappletConnectors) >>, OneWorkflow >> }

\* root elements of the well-formed documents
Roots ==
    { [ REPOSITORY |-> << [ NAME |-> "REPO" ] >>, FOLDER |-> c[1], MAPPING |-> m,
        WORKFLOW |-> c[2] ] :
         c \in ContextPool, m \in MappingPool }

\* An xml_bytes argument: None, or a byte string of some length together with
\* the tree ET.fromstring yields for it (NoElem when ET.fromstring raises).
NoneBytes == [ isNone |-> TRUE, length |-> 0, tree |-> NoElem ]

Bytes(n, t) == [ isNone |-> FALSE, length |-> n, tree |-> t ]

\* not well-formed XML: zero bytes, whitespace only, truncated document, plain text
MalformedInputs == { Bytes(n, NoElem) : n \in {0, 1, 17, 400} }

WellFormedInputs == { Bytes(400, <<r>>) : r \in Roots }

XmlInputs == { NoneBytes } \cup MalformedInputs \cup WellFormedInputs

(***************************************************************************)
(* parse_xml_bytes                                                         *)
(***************************************************************************)

\* rows built by two nested loops: the row lists of `lists`, from list i on,
\* one after the other
RECURSIVE FlatMap(_, _)
FlatMap(lists, i) ==
    IF i > Len(lists) THEN << >>
    ELSE lists[i] \o FlatMap(lists, i + 1)

\* the five Overview rows (Item, Value)
overview(repo, folder, mapping, workflow, session) ==
    << [ Item |-> "Repository",    Value |-> NameOrEmpty(repo) ],
       [ Item |-> "Folder",        Value |-> NameOrEmpty(folder) ],
       [ Item |-> "Mapping Name",  Value |-> NameOrEmpty(mapping) ],
       [ Item |-> "Workflow Name", Value |-> NameOrEmpty(workflow) ],
       [ Item |-> "Session Name",  Value |-> NameOrEmpty(session) ] >>

source_rows(folder) ==
    LET Fields(s) ==
            [ i \in 1..Len(s.SOURCEFIELD) |->
                [ Source_Name      |-> s.NAME,
                  Source_Type      |-> s.DATABASETYPE,
                  Field_Name       |-> s.SOURCEFIELD[i].NAME,
                  Datatype         |-> s.SOURCEFIELD[i].DATATYPE,
                  Length_Precision |-> s.SOURCEFIELD[i].PRECISION,
                  Scale            |-> s.SOURCEFIELD[i].SCALE,
                  Nullable         |-> s.SOURCEFIELD[i].NULLABLE ] ]
        sources == findall(folder, "SOURCE")
    IN  FlatMap([ k \in 1..Len(sources) |-> Fields(sources[k]) ], 1)

\* targets[0].get("NAME") if targets else "TARGET_TABLE"
target_name(targets) == IF targets # << >> THEN targets[1].NAME ELSE "TARGET_TABLE"

target_rows(targets) ==
    LET Fields(t) ==
            [ i \in 1..Len(t.TARGETFIELD) |->
                [ Target_Name |-> t.NAME,
                  Database    |-> t.DATABASETYPE,
                  Column      |-> t.TARGETFIELD[i].NAME,
                  Datatype    |-> t.TARGETFIELD[i].DATATYPE,
                  Precision   |-> t.TARGETFIELD[i].PRECISION,
                  Scale       |-> t.TARGETFIELD[i].SCALE,
                  Key_Type    |-> t.TARGETFIELD[i].KEYTYPE,
                  Nullable    |-> t.TARGETFIELD[i].NULLABLE ] ]
    IN  FlatMap([ k \in 1..Len(targets) |-> Fields(targets[k]) ], 1)

LookupAttributes == { "Lookup Sql Override", "Lookup condition", "Lookup table name" }

trans_rows(mapping) ==
    LET Ports(tr) ==
            [ i \in 1..Len(tr.TRANSFORMFIELD) |->
                [ Transformation |-> tr.NAME,
                  Type           |-> tr.TYPE,
                  Port_Name      |-> tr.TRANSFORMFIELD[i].NAME,
                  Port_Type      |-> tr.TRANSFORMFIELD[i].PORTTYPE,
                  Datatype       |-> tr.TRANSFORMFIELD[i].DATATYPE,
                  Precision      |-> tr.TRANSFORMFIELD[i].PRECISION,
                  Scale          |-> tr.TRANSFORMFIELD[i].SCALE,
                  Default        |-> tr.TRANSFORMFIELD[i].DEFAULTVALUE,
                  Expression     |-> Or(tr.TRANSFORMFIELD[i].EXPRESSION, "") ] ]
        Attr(tr, ta) ==
            IF ta.NAME \in LookupAttributes
            THEN << [ Transformation |-> tr.NAME,
                      Type           |-> tr.TYPE,
                      Port_Name      |-> ta.NAME,
                      Port_Type      |-> "Attribute",
                      Datatype       |-> "",
                      Precision      |-> "",
                      Scale          |-> "",
                      Default        |-> "",
                      Expression     |-> ta.VALUE ] >>
            ELSE << >>
        Rows(tr) ==
            Ports(tr) \o
            FlatMap([ k \in 1..Len(tr.TABLEATTRIBUTE) |-> Attr(tr, tr.TABLEATTRIBUTE[k]) ], 1)
        trs == findall(mapping, "TRANSFORMATION")
    IN  IF mapping # NoElem THEN FlatMap([ k \in 1..Len(trs) |-> Rows(trs[k]) ], 1)
        ELSE << >>

\* Variant of conn_rows that searches the whole document: every CONNECTOR
\* element under the root, those of the folder's mapplets included.
conn_rows_anywhere(root, mapping) ==
    LET fs == findall(root, "FOLDER")
        cs == (IF fs = << >> THEN << >> ELSE fs[1].MAPPLET_CONNECTOR)
              \o findall(mapping, "CONNECTOR")
    IN  [ i \in 1..Len(cs) |->
            [ From_Instance |-> cs[i].FROMINSTANCE,
              From_Type     |-> cs[i].FROMINSTANCETYPE,
              From_Field    |-> cs[i].FROMFIELD,
              To_Instance   |-> cs[i].TOINSTANCE,
              To_Type       |-> cs[i].TOINSTANCETYPE,
              To_Field      |-> cs[i].TOFIELD ] ]

\* one Connectors row per CONNECTOR element found under the mapping
conn_rows(root, mapping) ==
    LET cs == findall(mapping, "CONNECTOR")
    IN  IF mapping # NoElem
        THEN [ i \in 1..Len(cs) |->
                 [ From_Instance |-> cs[i].FROMINSTANCE,
                   From_Type     |-> cs[i].FROMINSTANCETYPE,
                   From_Field    |-> cs[i].FROMFIELD,
                   To_Instance   |-> cs[i].TOINSTANCE,
                   To_Type       |-> cs[i].TOINSTANCETYPE,
                   To_Field      |-> cs[i].TOFIELD ] ]
        ELSE << >>

\* the fixed priority table of instance types
type_order ==
    [ t \in { "Source Definition", "Expression", "Aggregator", "Joiner",
              "Lookup Procedure", "Filter", "Router", "Update Strategy",
              "Sorter", "Sequence", "Target Definition" } |->
        CASE t = "Source Definition" -> 0
          [] t = "Expression"        -> 10
          [] t = "Aggregator"        -> 11
          [] t = "Joiner"            -> 12
          [] t = "Lookup Procedure"  -> 13
          [] t = "Filter"            -> 14
          [] t = "Router"            -> 15
          [] t = "Update Strategy"   -> 16
          [] t = "Sorter"            -> 17
          [] t = "Sequence"          -> 18
          [] t = "Target Definition" -> 99 ]

\* type_order.get(k, 50)
type_order_get(k) == IF k \in DOMAIN type_order THEN type_order[k] ELSE 50

\* _rank(row): fr * 100 + to
_rank(row) ==
    LET fr == type_order_get(Str(Or(row.From_Type, "")))
        to == type_order_get(Str(Or(row.To_Type, "")))
    IN  fr * 100 + to

\* Variant of SortKey with "__rank" left out of the `by` list.
SortKey_without_rank(row) ==
    << StrPos(row.From_Type), StrPos(row.From_Instance),
       StrPos(row.To_Type), StrPos(row.To_Instance),
       StrPos(row.From_Field), StrPos(row.To_Field) >>

\* the columns sort_values compares, in the order of its `by` list
SortKey(row) ==
    << _rank(row), StrPos(row.From_Type), StrPos(row.From_Instance),
       StrPos(row.To_Type), StrPos(row.To_Instance),
       StrPos(row.From_Field), StrPos(row.To_Field) >>

\* Variant of InsertStable that is not stable: index i goes in front of the
\* indices already placed whose key equals that of row i.
RECURSIVE InsertBeforeEqual(_, _, _)
InsertBeforeEqual(placed, i, rows) ==
    IF placed = << >> THEN <<i>>
    ELSE IF ~LexLess(SortKey(rows[Head(placed)]), SortKey(rows[i]))
         THEN <<i>> \o placed
         ELSE <<Head(placed)>> \o InsertBeforeEqual(Tail(placed), i, rows)

\* Stable sort step: index i goes behind every index already placed whose key
\* is not greater than that of row i.
RECURSIVE InsertStable(_, _, _)
InsertStable(placed, i, rows) ==
    IF placed = << >> THEN <<i>>
    ELSE IF LexLess(SortKey(rows[i]), SortKey(rows[Head(placed)]))
         THEN <<i>> \o placed
         ELSE <<Head(placed)>> \o InsertStable(Tail(placed), i, rows)

\* Index labels of rows after sort_values(by=[...], kind="stable"): the input
\* positions in sorted order.
RECURSIVE sort_values(_, _)
sort_values(rows, n) ==
    IF n = 0 THEN << >>
    ELSE InsertStable(sort_values(rows, n - 1), n, rows)

\* Index of conn_df when tabs["Connectors"] is assigned from it; the sort is
\* skipped for an empty frame.
conn_df_index(rows) == IF rows # << >> THEN sort_values(rows, Len(rows)) ELSE << >>

\* conn_df after drop(columns="__rank") and reset_index(drop=True)
conn_df(rows) ==
    LET idx == conn_df_index(rows)
    IN  [ k \in 1..Len(idx) |-> rows[idx[k]] ]

\* Variant of lineage_rows without the To Type test: a row for every connector.
lineage_rows_unfiltered(df, tname) ==
    [ k \in 1..Len(df) |->
        [ Target_Table        |-> tname,
          Target_Column       |-> df[k].To_Field,
          Comes_From_Instance |-> df[k].From_Instance,
          Comes_From_Field    |-> df[k].From_Field ] ]

\* Field lineage: only links that end at a target
lineage_rows(df, tname) ==
    LET ends == SelectRows(df, { k \in 1..Len(df) : Str(df[k].To_Type) = "Target Definition" }, 1)
    IN  [ k \in 1..Len(ends) |->
            [ Target_Table        |-> tname,
              Target_Column       |-> ends[k].To_Field,
              Comes_From_Instance |-> ends[k].From_Instance,
              Comes_From_Field    |-> ends[k].From_Field ] ]

\* pd.DataFrame([session_attrs]) if session_attrs else pd.DataFrame(): one row
\* mapping each attribute name to the value of its last ATTRIBUTE element
session_attrs(session) ==
    LET attrs == findall(session, "ATTRIBUTE")
        names == { attrs[i].NAME : i \in 1..Len(attrs) }
        last(n) == CHOOSE i \in 1..Len(attrs) :
                      /\ attrs[i].NAME = n
                      /\ \A j \in 1..Len(attrs) : attrs[j].NAME = n => j <= i
    IN  IF session # NoElem /\ attrs # << >>
        THEN << [ n \in names |-> attrs[last(n)].VALUE ] >>
        ELSE << >>

\* list(src_df["Field Name"].unique()) if not src_df.empty else []
source_headers(src_df) ==
    LET names == [ i \in 1..Len(src_df) |-> src_df[i].Field_Name ]
        firsts == { i \in 1..Len(names) : \A j \in 1..(i - 1) : names[j] # names[i] }
    IN  SelectRows(names, firsts, 1)

\* the (tabs, meta, index of the sorted connector frame) parse_xml_bytes
\* computes from a parsed root
ParseRoot(root) ==
    LET repo     == findfirst(root, "REPOSITORY")
        folder   == findfirst(root, "FOLDER")
        mapping  == findfirst(root, "MAPPING")
        workflow == findfirst(root, "WORKFLOW")
        session  == IF workflow # NoElem THEN findfirst(workflow, "SESSION") ELSE NoElem
        ov       == overview(repo, folder, mapping, workflow, session)
        src_df   == source_rows(folder)
        targets  == findall(folder, "TARGET")
        tname    == target_name(targets)
        rows     == conn_rows(root, mapping)
        df       == conn_df(rows)
    IN  [ tabs |-> [ _empty_tabs EXCEPT
                       !["Overview"]           = ov,
                       !["Source Fields"]      = src_df,
                       !["Target Fields"]      = target_rows(targets),
                       !["Transformations"]    = trans_rows(mapping),
                       !["Connectors"]         = df,
                       !["Field Lineage"]      = lineage_rows(df, tname),
                       !["Session Attributes"] = session_attrs(session) ],
          meta |-> [ target_name    |-> Or(tname, "TARGET_TABLE"),
                     mapping_name   |-> ov[3].Value,
                     workflow_name  |-> ov[4].Value,
                     source_headers |-> source_headers(src_df) ],
          index |-> conn_df_index(rows) ]

\* what parse_xml_bytes returns for an input it does not parse
EmptyResult == [ tabs |-> _empty_tabs, meta |-> DefaultMeta, index |-> << >> ]

\* Variant of parse_xml_bytes_result whose except clause does not return: the
\* tables are built from an absent root.
parse_xml_bytes_result_no_return(b) ==
    IF b.isNone \/ b.length = 0 THEN EmptyResult
    ELSE ParseRoot(b.tree)

\* parse_xml_bytes(xml_bytes)
parse_xml_bytes_result(b) ==
    IF b.isNone \/ b.length = 0 THEN EmptyResult       \* if not xml_bytes
    ELSE IF b.tree = NoElem THEN EmptyResult           \* ET.fromstring raised
    ELSE ParseRoot(b.tree)

(***************************************************************************)
(* Specification of one call of parse_xml_bytes                            *)
(***************************************************************************)

\* no map_type_for_db call is under way
MapperIdle ==
    /\ datatype = None /\ precision = None /\ scale = None /\ db = None
    /\ type_literal = None

\* no build_target_sql call is under way
DdlIdle == target_df = << >> /\ target_db = None /\ sql = None

\* no detect_transformation_logic call is under way
DetectIdle == max_lines = None /\ lines = << >> /\ examined = 0

Init ==
    /\ pc = "call"
    /\ xml_bytes \in XmlInputs
    /\ tabs = _empty_tabs
    /\ meta = DefaultMeta
    /\ conn_index = << >>
    /\ MapperIdle
    /\ DdlIdle
    /\ DetectIdle

parse_xml_bytes ==
    /\ pc = "call"
    /\ LET r == parse_xml_bytes_result(xml_bytes)
       IN  /\ tabs' = r.tabs
           /\ meta' = r.meta
           /\ conn_index' = r.index
    /\ pc' = "return"
    /\ UNCHANGED <<xml_bytes, mapper_vars, ddl_vars, detect_vars>>

Next == parse_xml_bytes

Spec == Init /\ [][Next]_vars

(***************************************************************************)
(* Properties of parse_xml_bytes                                           *)
(***************************************************************************)

\* the call has returned
Returned == pc = "return"

\* the input is None, zero bytes, or bytes ET.fromstring cannot parse
BadInput == xml_bytes.isNone \/ xml_bytes.length = 0 \/ xml_bytes.tree = NoElem

\* the tables the specification names
NamedTables ==
    { "Overview", "Source Fields", "Target Fields", "Field Lineage",
      "Transformations", "Connectors", "Session Attributes" }

\* the Connectors rows the document declares under its mapping, in document
\* order; none when the document has no mapping
DeclaredConnectors ==
    LET ms == IF xml_bytes.tree = NoElem THEN << >> ELSE xml_bytes.tree[1].MAPPING
        cs == IF ms = << >> THEN << >> ELSE ms[1].CONNECTOR
    IN  [ i \in 1..Len(cs) |->
            [ From_Instance |-> cs[i].FROMINSTANCE, From_Type |-> cs[i].FROMINSTANCETYPE,
              From_Field |-> cs[i].FROMFIELD, To_Instance |-> cs[i].TOINSTANCE,
              To_Type |-> cs[i].TOINSTANCETYPE, To_Field |-> cs[i].TOFIELD ] ]

\* C1: for an input that is None, empty or not parseable as XML the call
\* returns (it is enabled and ends in "return"), every named table is present
\* with zero rows, and the metadata is exactly the sentinel record.
C1_BadInputDegrades ==
    /\ (pc = "call" /\ BadInput) => ENABLED parse_xml_bytes
    /\ (Returned /\ BadInput) =>
          /\ NamedTables \subseteq DOMAIN tabs
          /\ \A n \in NamedTables : Len(tabs[n]) = 0
          /\ meta = [ target_name |-> "TARGET_TABLE", mapping_name |-> "",
                      workflow_name |-> "", source_headers |-> << >> ]

\* a call on unparseable, non-empty bytes has returned
C1_Witness == Returned /\ ~xml_bytes.isNone /\ xml_bytes.length > 0 /\ xml_bytes.tree = NoElem

\* the positions of the Connectors rows that end at a target definition
TargetEnds == { k \in 1..Len(tabs["Connectors"]) : tabs["Connectors"][k].To_Type = "Target Definition" }

\* C2: Field Lineage has exactly one row per Connectors row whose To Type is
\* "Target Definition" and none for any other row, in the order of the
\* Connectors table, each carrying that row's To Field, From Instance and
\* From Field.
C2_LineageOneHop ==
    (Returned /\ ~BadInput) =>
        LET CN == tabs["Connectors"]
            FL == tabs["Field Lineage"]
            \* the position in CN of the k-th row that ends at a target
            End(k) == CHOOSE t \in TargetEnds :
                         Cardinality({ u \in TargetEnds : u <= t }) = k
        IN  /\ Len(FL) = Cardinality(TargetEnds)
            /\ \A k \in 1..Len(FL) :
                  /\ FL[k].Target_Column = CN[End(k)].To_Field
                  /\ FL[k].Comes_From_Instance = CN[End(k)].From_Instance
                  /\ FL[k].Comes_From_Field = CN[End(k)].From_Field

\* a parsed document whose connectors mix target-bound and other edges, a
\* target-bound one behind another edge
C2_Witness ==
    /\ Returned /\ ~BadInput
    /\ Len(tabs["Field Lineage"]) >= 2
    /\ \E a, b \in 1..Len(tabs["Connectors"]) : a < b /\ a \notin TargetEnds /\ b \in TargetEnds
    /\ \E a, b \in 1..Len(DeclaredConnectors) :
          /\ a < b
          /\ DeclaredConnectors[a].To_Type = "Target Definition"
          /\ DeclaredConnectors[b].To_Type # "Target Definition"

\* rank of an instance type as the specification's priority table gives it
C3_TypeRank(t) ==
    CASE t = "Source Definition" -> 0
      [] t = "Expression"        -> 10
      [] t = "Aggregator"        -> 11
      [] t = "Joiner"            -> 12
      [] t = "Lookup Procedure"  -> 13
      [] t = "Filter"            -> 14
      [] t = "Router"            -> 15
      [] t = "Update Strategy"   -> 16
      [] t = "Sorter"            -> 17
      [] t = "Sequence"          -> 18
      [] t = "Target Definition" -> 99
      [] OTHER                   -> 50

\* the sort key the specification states for a connector
C3_Key(row) ==
    << C3_TypeRank(row.From_Type) * 100 + C3_TypeRank(row.To_Type),
       StrPos(row.From_Type), StrPos(row.From_Instance), StrPos(row.To_Type),
       StrPos(row.To_Instance), StrPos(row.From_Field), StrPos(row.To_Field) >>

\* number of positions of seq that hold x
Count(seq, x) == Cardinality({ i \in 1..Len(seq) : seq[i] = x })

\* C3: for a non-empty connector list the Connectors table is a permutation
\* of the declared connectors (same rows, same multiplicities) in
\* non-decreasing order of the key (from_rank * 100 + to_rank, From Type, From
\* Instance, To Type, To Instance, From Field, To Field).
C3_ConnectorsSortedPermutation ==
    (Returned /\ ~BadInput /\ DeclaredConnectors # << >>) =>
        LET CN == tabs["Connectors"]
            IN_ == DeclaredConnectors
        IN  /\ Len(CN) = Len(IN_)
            /\ \A i \in 1..Len(IN_) : Count(CN, IN_[i]) = Count(IN_, IN_[i])
            /\ \A a, b \in 1..Len(CN) : a < b => ~LexLess(C3_Key(CN[b]), C3_Key(CN[a]))

\* a parsed list that the sort had to rearrange: declared out of key order,
\* with a rank tie decided by a secondary column and an unrecognised type
C3_Witness ==
    /\ Returned /\ ~BadInput
    /\ Len(DeclaredConnectors) = MaxConn
    /\ tabs["Connectors"] # DeclaredConnectors
    /\ \E a, b \in 1..MaxConn :
          /\ a < b
          /\ C3_Key(tabs["Connectors"][a])[1] = C3_Key(tabs["Connectors"][b])[1]
          /\ C3_Key(tabs["Connectors"][a]) # C3_Key(tabs["Connectors"][b])
    /\ \E a \in 1..MaxConn : tabs["Connectors"][a].From_Type \notin DOMAIN type_order

\* C4: the output order is a function of the input list alone: the index of
\* the sorted frame is the one arrangement of the input positions that is
\* strictly increasing in (sort key, input position).  Hence two runs on the
\* same list agree, and connectors with an identical key keep their input
\* order.
C4_OrderingDeterministicStable ==
    (Returned /\ ~BadInput) =>
        LET IN_ == DeclaredConnectors
            n == Len(IN_)
        IN  /\ Len(conn_index) = n
            /\ { conn_index[k] : k \in 1..n } = 1..n
            /\ \A k \in 1..n : tabs["Connectors"][k] = IN_[conn_index[k]]
            /\ \A a, b \in 1..n : a < b =>
                  \/ LexLess(C3_Key(IN_[conn_index[a]]), C3_Key(IN_[conn_index[b]]))
                  \/ /\ C3_Key(IN_[conn_index[a]]) = C3_Key(IN_[conn_index[b]])
                     /\ conn_index[a] < conn_index[b]

\* a parsed list holding the same connector twice, apart, and rearranged
C4_Witness ==
    /\ Returned /\ ~BadInput
    /\ Len(DeclaredConnectors) >= 3
    /\ DeclaredConnectors[1] = DeclaredConnectors[3]
    /\ DeclaredConnectors[1] # DeclaredConnectors[2]
    /\ \E k \in 1..(Len(conn_index) - 1) : conn_index[k] = 1 /\ conn_index[k + 1] = 3

\* the document has no mapping node, or a mapping without connector nodes
ZeroConnectors ==
    /\ ~BadInput
    /\ \/ xml_bytes.tree[1].MAPPING = << >>
       \/ xml_bytes.tree[1].MAPPING[1].CONNECTOR = << >>

\* C5: for a document that declares zero connectors the Connectors table and
\* the Field Lineage table are both empty and the call returns.
C5_ZeroConnectorsEmptyOutputs ==
    /\ (pc = "call" /\ ZeroConnectors) => ENABLED parse_xml_bytes
    /\ (Returned /\ ZeroConnectors) =>
          /\ Len(tabs["Connectors"]) = 0
          /\ Len(tabs["Field Lineage"]) = 0

\* a document without a mapping whose folder declares targets, sources, and
\* a mapplet with a connector
C5_Witness ==
    /\ Returned /\ ZeroConnectors
    /\ xml_bytes.tree[1].MAPPING = << >>
    /\ xml_bytes.tree[1].FOLDER # << >>
    /\ xml_bytes.tree[1].FOLDER[1].MAPPLET_CONNECTOR # << >>
    /\ Len(tabs["Target Fields"]) > 0

\* a mapping with transformations and no connector, in a folder with targets
C5_WitnessEmptyMapping ==
    /\ Returned /\ ZeroConnectors
    /\ xml_bytes.tree[1].MAPPING # << >>
    /\ Len(tabs["Transformations"]) > 0
    /\ Len(tabs["Target Fields"]) > 0

\* the TARGET elements the document declares in its folder, in document order
DeclaredTargets ==
    LET fs == IF xml_bytes.tree = NoElem THEN << >> ELSE xml_bytes.tree[1].FOLDER
    IN  IF fs = << >> THEN << >> ELSE fs[1].TARGET

\* the canonical target name: the NAME of the first declared TARGET, or
\* "TARGET_TABLE" when none is declared or the first one has no name
CanonicalTarget ==
    IF DeclaredTargets = << >> \/ DeclaredTargets[1].NAME \in { None, "" }
    THEN "TARGET_TABLE"
    ELSE DeclaredTargets[1].NAME

\* C13: for every parsed document the metadata's target_name is the canonical
\* target name and every Field Lineage row's Target Table equals it, whichever
\* target instance the connector's To Instance names.
C13_CanonicalTargetEverywhere ==
    Returned =>
        /\ meta.target_name = CanonicalTarget
        /\ \A k \in 1..Len(tabs["Field Lineage"]) :
               tabs["Field Lineage"][k].Target_Table = meta.target_name

(***************************************************************************)
(* map_type_for_db                                                         *)
(***************************************************************************)

\* longest precision string and longest scale string of a modelled call
MaxPrecLen == 2
MaxScaleLen == 1

\* the characters precision and scale strings are made of: two decimal
\* digits and a character that is none
Alphabet == { "0", "1", "x" }
Digits == { "0", "1", "2", "3", "4", "5", "6", "7", "8", "9" }

\* the str made of the characters cs
RECURSIVE Join(_)
Join(cs) == IF cs = << >> THEN "" ELSE Head(cs) \o Join(Tail(cs))

CharSeqs == SeqsUpTo(Alphabet, MaxPrecLen) \cup SeqsUpTo(Alphabet, MaxScaleLen)

\* the characters of each modelled precision or scale string
Chars == [ v \in { Join(cs) : cs \in CharSeqs } |-> CHOOSE cs \in CharSeqs : Join(cs) = v ]

\* str.isdigit(): at least one character, and every character a digit
isdigit(v) == LET cs == Chars[v] IN cs # << >> /\ \A i \in 1..Len(cs) : cs[i] \in Digits

\* str.upper() on the modelled type names, nullability and key-type markers
upper(v) ==
    CASE v = "varchar"      -> "VARCHAR"
      [] v = "varchar2"     -> "VARCHAR2"
      [] v = "char"         -> "CHAR"
      [] v = "number"       -> "NUMBER"
      [] v = "date"         -> "DATE"
      [] v = "timestamp(6)" -> "TIMESTAMP(6)"
      [] v = "None"         -> "NONE"
      [] v = "notnull"      -> "NOTNULL"
      [] v = "NotNull"      -> "NOTNULL"
      [] v = "primary key"  -> "PRIMARY KEY"
      [] v = "Primary Key"  -> "PRIMARY KEY"
      [] OTHER              -> v

\* str.lower() on the modelled dialect names
lower(v) ==
    CASE v = "ORACLE"    -> "oracle"
      [] v = "Snowflake" -> "snowflake"
      [] v = "MySQL"     -> "mysql"
      [] v = "DB2"       -> "db2"
      [] OTHER           -> v

\* dt.startswith("TIMESTAMP") on the modelled type names
startswith_TIMESTAMP(dt) == dt \in { "TIMESTAMP", "TIMESTAMP(6)" }

PrecisionValues == { None } \cup { Join(cs) : cs \in SeqsUpTo(Alphabet, MaxPrecLen) }
ScaleValues == { None } \cup { Join(cs) : cs \in SeqsUpTo(Alphabet, MaxScaleLen) }

DatatypeValues ==
    { "VARCHAR", "VARCHAR2", "varchar2", "NVARCHAR", "STRING", "CHAR", "NUMBER",
      "number", "DECIMAL", "NUMERIC", "INTEGER", "BIGINT", "DATE", "timestamp(6)",
      "DATETIME", "BLOB", None }

DialectValues ==
    { "oracle", "sqlserver", "postgres", "mysql", "snowflake",
      "ORACLE", "Snowflake", "db2", "", None }

\* Variant of _num that does not test the scale: (p, s) whenever p is digits.
_num_scale_unchecked(p, s) == IF isdigit(p) THEN <<p, s>> ELSE <<None, None>>

\* _num(): (p, s), (p, None) or (None, None)
_num(p, s) ==
    IF isdigit(p) THEN (IF isdigit(s) THEN <<p, s>> ELSE <<p, None>>)
    ELSE <<None, None>>

\* the numeric branch shared by the dialects: kind(pp,ss), kind(pp) or dflt
numeric(kind, dflt, p, s) ==
    LET pp == _num(p, s)[1]
        ss == _num(p, s)[2]
    IN  IF pp # None /\ pp # "" /\ ss # None THEN kind \o "(" \o pp \o "," \o ss \o ")"
        ELSE IF pp # None /\ pp # "" THEN kind \o "(" \o pp \o ")"
        ELSE dflt

\* f"{kind}({p})" if p.isdigit() else dflt
sized(kind, dflt, p) == IF isdigit(p) THEN kind \o "(" \o p \o ")" ELSE dflt

oracle_type(dt, p, s) ==
    IF dt \in { "VARCHAR", "VARCHAR2" } THEN sized("VARCHAR2", "VARCHAR2(255)", p)
    ELSE IF dt = "CHAR" THEN sized("CHAR", "CHAR(1)", p)
    ELSE IF dt \in { "NUMBER", "DECIMAL", "NUMERIC", "INTEGER", "INT", "SMALLINT" }
         THEN numeric("NUMBER", "NUMBER", p, s)
    ELSE IF dt = "DATE" THEN "DATE"
    ELSE IF startswith_TIMESTAMP(dt) THEN "TIMESTAMP"
    ELSE "VARCHAR2(255)"

sqlserver_type(dt, p, s) ==
    IF dt \in { "VARCHAR", "VARCHAR2", "NVARCHAR" } THEN sized("VARCHAR", "VARCHAR(255)", p)
    ELSE IF dt = "CHAR" THEN sized("CHAR", "CHAR(1)", p)
    ELSE IF dt \in { "NUMBER", "DECIMAL", "NUMERIC" }
         THEN numeric("DECIMAL", "DECIMAL(38,10)", p, s)
    ELSE IF dt \in { "INTEGER", "INT", "SMALLINT", "BIGINT" } THEN "INT"
    ELSE IF dt = "DATE" THEN "DATE"
    ELSE IF startswith_TIMESTAMP(dt) \/ dt \in { "DATETIME", "SMALLDATETIME" } THEN "DATETIME"
    ELSE "VARCHAR(255)"

postgres_type(dt, p, s) ==
    IF dt \in { "VARCHAR", "VARCHAR2" } THEN sized("VARCHAR", "VARCHAR(255)", p)
    ELSE IF dt = "CHAR" THEN sized("CHAR", "CHAR(1)", p)
    ELSE IF dt \in { "NUMBER", "DECIMAL", "NUMERIC" }
         THEN numeric("NUMERIC", "NUMERIC", p, s)
    ELSE IF dt \in { "INTEGER", "INT", "SMALLINT", "BIGINT" } THEN "INTEGER"
    ELSE IF dt = "DATE" THEN "DATE"
    ELSE IF startswith_TIMESTAMP(dt) THEN "TIMESTAMP"
    ELSE "VARCHAR(255)"

mysql_type(dt, p, s) ==
    IF dt \in { "VARCHAR", "VARCHAR2" } THEN sized("VARCHAR", "VARCHAR(255)", p)
    ELSE IF dt = "CHAR" THEN sized("CHAR", "CHAR(1)", p)
    ELSE IF dt \in { "NUMBER", "DECIMAL", "NUMERIC" }
         THEN numeric("DECIMAL", "DECIMAL(38,10)", p, s)
    ELSE IF dt \in { "INTEGER", "INT", "SMALLINT", "BIGINT" } THEN "INT"
    ELSE IF dt = "DATE" THEN "DATE"
    ELSE IF startswith_TIMESTAMP(dt) \/ dt = "DATETIME" THEN "DATETIME"
    ELSE "VARCHAR(255)"

snowflake_type(dt, p, s) ==
    IF dt \in { "VARCHAR", "VARCHAR2", "STRING", "TEXT" } THEN sized("VARCHAR", "VARCHAR", p)
    ELSE IF dt = "CHAR" THEN sized("CHAR", "CHAR(1)", p)
    ELSE IF dt \in { "NUMBER", "DECIMAL", "NUMERIC" }
         THEN numeric("NUMBER", "NUMBER", p, s)
    ELSE IF dt \in { "INTEGER", "INT", "SMALLINT", "BIGINT" } THEN "NUMBER(38,0)"
    ELSE IF dt = "DATE" THEN "DATE"
    ELSE IF startswith_TIMESTAMP(dt) THEN "TIMESTAMP_NTZ"
    ELSE "VARCHAR"

\* Variant of dialect_type whose fallback is the oracle mapping.
dialect_type_default_oracle(dt, p, s, d) ==
    IF d = "sqlserver" THEN sqlserver_type(dt, p, s)
    ELSE IF d = "postgres" THEN postgres_type(dt, p, s)
    ELSE IF d = "mysql" THEN mysql_type(dt, p, s)
    ELSE IF d = "snowflake" THEN snowflake_type(dt, p, s)
    ELSE oracle_type(dt, p, s)

\* the value returned once dt, p, s and the lowered dialect d are known
dialect_type(dt, p, s, d) ==
    IF d = "oracle" THEN oracle_type(dt, p, s)
    ELSE IF d = "sqlserver" THEN sqlserver_type(dt, p, s)
    ELSE IF d = "postgres" THEN postgres_type(dt, p, s)
    ELSE IF d = "mysql" THEN mysql_type(dt, p, s)
    ELSE IF d = "snowflake" THEN snowflake_type(dt, p, s)
    ELSE "VARCHAR(255)"  \* fallback

\* map_type_for_db(datatype, precision, scale, db)
map_type_for_db_result(datatype_, precision_, scale_, db_) ==
    LET dt == upper(Or(Str(datatype_), ""))
        p  == IF precision_ # None THEN Str(precision_) ELSE ""
        s  == IF scale_ # None THEN Str(scale_) ELSE ""
    IN  dialect_type(dt, p, s, lower(Or(db_, "oracle")))

(***************************************************************************)
(* Specification of one call of map_type_for_db                            *)
(***************************************************************************)

InitMap ==
    /\ pc = "call"
    /\ datatype \in DatatypeValues
    /\ precision \in PrecisionValues
    /\ scale \in ScaleValues
    /\ db \in DialectValues
    /\ type_literal = None
    /\ xml_bytes = NoneBytes /\ tabs = _empty_tabs /\ meta = DefaultMeta
    /\ conn_index = << >>
    /\ DdlIdle
    /\ DetectIdle

map_type_for_db ==
    /\ pc = "call"
    /\ type_literal' = map_type_for_db_result(datatype, precision, scale, db)
    /\ pc' = "return"
    /\ UNCHANGED <<xml_bytes, tabs, meta, conn_index, datatype, precision, scale, db,
                   ddl_vars, detect_vars>>

NextMap == map_type_for_db

SpecMap == InitMap /\ [][NextMap]_vars

(***************************************************************************)
(* build_target_sql                                                        *)
(***************************************************************************)

\* longest Target Fields frame of a modelled call
MaxRows == 2

TargetRow(col, dt, p, sc, kt, nl) ==
    [ Target_Name |-> "T_A", Database |-> "Oracle", Column |-> col, Datatype |-> dt,
      Precision |-> p, Scale |-> sc, Key_Type |-> kt, Nullable |-> nl ]

\* Target Fields rows as target_rows builds them: key and nullability markers
\* in several letter cases, other values, and absent attributes (None)
TargetRowPool ==
    { TargetRow("ID",   "NUMBER",   "10", "0",  "PRIMARY KEY", "NOTNULL"),
      TargetRow("CODE", "varchar2", "1",  None, "primary key", "notnull"),
      TargetRow("NAME", "VARCHAR",  "x",  None, "NOT A KEY",   "NULL"),
      TargetRow("FLAG", "CHAR",     None, None, "Primary Key", "NotNull"),
      TargetRow("K2",   "DATE",     None, None, "PRIMARY KEY", None),
      TargetRow("N2",   "number",   "",   "",   "FOREIGN KEY", "NOTNULL"),
      TargetRow(None,   "VARCHAR",  "10", None, "PRIMARY KEY", "NOTNULL"),
      TargetRow(None,   "BLOB",     None, None, None,          "NOT NULL") }

TargetDbValues == { "oracle", "postgres", "Snowflake", "db2", "", None }

\* meta dicts: a target name, and one whose target_name is missing
MetaValues == { [ DefaultMeta EXCEPT !.target_name = n ] : n \in { "T_A", None } }

\* sep.join(items) for a list of str
RECURSIVE JoinWith(_, _)
JoinWith(items, sep) ==
    IF items = << >> THEN ""
    ELSE IF Len(items) = 1 THEN items[1]
    ELSE items[1] \o sep \o JoinWith(Tail(items), sep)

\* str.join raises TypeError when an item is not a str
JoinRaises(items) == \E i \in 1..Len(items) : items[i] = None

\* " NOT NULL" if str(r.get("Nullable")).upper() == "NOTNULL" else ""
not_null(r) == IF upper(Str(r.Nullable)) = "NOTNULL" THEN " NOT NULL" ELSE ""

\* the column definition appended to cols for row r
col_line(r, target_db_) ==
    "  " \o Str(r.Column) \o " "
         \o map_type_for_db_result(r.Datatype, r.Precision, r.Scale, target_db_)
         \o not_null(r)

\* the colname of every row whose Key Type is PRIMARY KEY, in table order
pk_cols(df) ==
    LET keys == SelectRows(df, { k \in 1..Len(df) : upper(Str(df[k].Key_Type)) = "PRIMARY KEY" }, 1)
    IN  [ k \in 1..Len(keys) |-> keys[k].Column ]

\* Variant of pk_statement that emits the ALTER statement whatever the dialect.
pk_statement_always_alter(tname, pks, target_db_) ==
    IF pks = << >> THEN << >>
    ELSE << "ALTER TABLE " \o tname \o " ADD CONSTRAINT PK_" \o tname
            \o " PRIMARY KEY (" \o JoinWith(pks, ", ") \o ");" >>

\* the lines appended to create for the primary key: none, the ALTER
\* statement, or a comment
pk_statement(tname, pks, target_db_) ==
    LET d == lower(Or(target_db_, "oracle"))
    IN  IF pks = << >> THEN << >>
        ELSE IF d \in { "postgres", "mysql", "sqlserver", "oracle", "snowflake" }
        THEN << "ALTER TABLE " \o tname \o " ADD CONSTRAINT PK_" \o tname
                \o " PRIMARY KEY (" \o JoinWith(pks, ", ") \o ");" >>
        ELSE << "-- PRIMARY KEY (" \o JoinWith(pks, ", ") \o ")" >>

\* build_target_sql(meta, target_df, target_db): the lists it builds and the
\* text it returns, or raised when ", ".join(pk_cols) raises
build_target_sql_result(meta_, df, target_db_) ==
    LET tname == Or(meta_.target_name, "TARGET_TABLE")
        cols  == [ k \in 1..Len(df) |-> col_line(df[k], target_db_) ]
        pks   == pk_cols(df)
    IN  IF df = << >>
        THEN [ raised |-> FALSE, cols |-> << >>, pk_cols |-> << >>, create |-> << >>,
               text |-> "-- No target fields found in XML for table " \o tname ]
        ELSE IF JoinRaises(pks)
        THEN [ raised |-> TRUE, cols |-> cols, pk_cols |-> pks, create |-> << >>,
               text |-> None ]
        ELSE LET create == << "CREATE TABLE " \o tname \o " (", JoinWith(cols, ",\n"), ");" >>
                           \o pk_statement(tname, pks, target_db_)
             IN  [ raised |-> FALSE, cols |-> cols, pk_cols |-> pks, create |-> create,
                   text |-> JoinWith(create, "\n") ]

(***************************************************************************)
(* Specification of one call of build_target_sql                           *)
(***************************************************************************)

InitDdl ==
    /\ pc = "call"
    /\ meta \in MetaValues
    /\ target_df \in SeqsUpTo(TargetRowPool, MaxRows)
    /\ target_db \in TargetDbValues
    /\ sql = None
    /\ xml_bytes = NoneBytes /\ tabs = _empty_tabs /\ conn_index = << >>
    /\ MapperIdle
    /\ DetectIdle

build_target_sql ==
    /\ pc = "call"
    /\ LET r == build_target_sql_result(meta, target_df, target_db)
       IN  /\ sql' = r
           /\ pc' = IF r.raised THEN "raise" ELSE "return"
    /\ UNCHANGED <<xml_bytes, tabs, meta, conn_index, mapper_vars, target_df, target_db,
                   detect_vars>>

NextDdl == build_target_sql

SpecDdl == InitDdl /\ [][NextDdl]_vars

(***************************************************************************)
(* detect_transformation_logic                                             *)
(*                                                                         *)
(* The patterns look inside the expression text, so in the rows given to   *)
(* this function an Expression is the sequence of its characters and a     *)
(* missing Expression is NoText.  A row carries the three columns the      *)
(* function reads.                                                         *)
(***************************************************************************)

\* most rows of a modelled Transformations table
MaxTrans == 3

\* the values given as max_lines; 40 is the default and what the caller passes
MaxLinesValues == { 0, 1, 2, 40 }

NoText == <<None>>

\* (value or "") of a text value
OrEmpty(v) == IF v = NoText THEN << >> ELSE v

LowerCase ==
    << "a", "b", "c", "d", "e", "f", "g", "h", "i", "j", "k", "l", "m",
       "n", "o", "p", "q", "r", "s", "t", "u", "v", "w", "x", "y", "z" >>
UpperCase ==
    << "A", "B", "C", "D", "E", "F", "G", "H", "I", "J", "K", "L", "M",
       "N", "O", "P", "Q", "R", "S", "T", "U", "V", "W", "X", "Y", "Z" >>

\* the character classes \w and \s of re, and [A-Z_] under re.IGNORECASE
WordChars ==
    { LowerCase[k] : k \in 1..26 } \cup { UpperCase[k] : k \in 1..26 }
        \cup Digits \cup { "_" }
Whitespace == { " ", "\t", "\n" }
LetterOrUnderscore ==
    { LowerCase[k] : k \in 1..26 } \cup { UpperCase[k] : k \in 1..26 } \cup { "_" }

\* re.IGNORECASE: a character of the text is compared by its upper-case form
LowerToUpper ==
    [ c \in { LowerCase[k] : k \in 1..26 } |->
        UpperCase[CHOOSE k \in 1..26 : LowerCase[k] = c] ]
IgnoreCase(c) == IF c \in DOMAIN LowerToUpper THEN LowerToUpper[c] ELSE c

\* str.strip()
RECURSIVE lstrip(_)
lstrip(cs) ==
    IF cs # << >> /\ Head(cs) \in Whitespace THEN lstrip(Tail(cs)) ELSE cs

RECURSIVE rstrip(_)
rstrip(cs) ==
    IF cs # << >> /\ cs[Len(cs)] \in Whitespace
    THEN rstrip(SubSeq(cs, 1, Len(cs) - 1))
    ELSE cs

strip(cs) == rstrip(lstrip(cs))

\* the pattern pieces: the literal text w matches at position i
LiteralAt(expr, i, w) ==
    /\ i + Len(w) - 1 <= Len(expr)
    /\ \A k \in 1..Len(w) : IgnoreCase(expr[i + k - 1]) = w[k]

\* \b between expr[i-1] and expr[i]
Boundary(expr, i) ==
    LET before == i > 1 /\ expr[i - 1] \in WordChars
        after == i <= Len(expr) /\ expr[i] \in WordChars
    IN  before # after

\* \s*\( from position i on
OpensCall(expr, i) ==
    \E j \in i..Len(expr) :
        /\ expr[j] = "("
        /\ \A k \in i..(j - 1) : expr[k] \in Whitespace

\* the forms the patterns take: \bW\s*\( , \bW\b , W , \bW[A-Z_]+\s*\(
Call(w) == [ kind |-> "call", text |-> w ]
Word(w) == [ kind |-> "word", text |-> w ]
Literal(w) == [ kind |-> "literal", text |-> w ]
Family(w) == [ kind |-> "family", text |-> w ]

\* one alternative of a pattern matches somewhere in expr
MatchesAt(alt, expr, i) ==
    LET w == alt.text
        end == i + Len(w)
    IN  /\ LiteralAt(expr, i, w)
        /\ CASE alt.kind = "literal" -> TRUE
             [] alt.kind = "call" -> Boundary(expr, i) /\ OpensCall(expr, end)
             [] alt.kind = "word" -> Boundary(expr, i) /\ Boundary(expr, end)
             [] alt.kind = "family" ->
                    /\ Boundary(expr, i)
                    /\ \E j \in end..Len(expr) :
                        /\ \A k \in end..j : expr[k] \in LetterOrUnderscore
                        /\ OpensCall(expr, j + 1)

\* re.search(rgx, expr, flags=re.IGNORECASE), rgx being its alternatives
re_search(rgx, expr) ==
    \E a \in 1..Len(rgx) : \E i \in 1..Len(expr) : MatchesAt(rgx[a], expr, i)

patterns == <<
    [ label |-> "Trim",
      rgx |-> << Call(<<"T", "R", "I", "M">>) >> ],
    [ label |-> "Left Trim",
      rgx |-> << Call(<<"L", "T", "R", "I", "M">>) >> ],
    [ label |-> "Right Trim",
      rgx |-> << Call(<<"R", "T", "R", "I", "M">>) >> ],
    [ label |-> "Uppercase",
      rgx |-> << Call(<<"U", "P", "P", "E", "R">>) >> ],
    [ label |-> "Lowercase",
      rgx |-> << Call(<<"L", "O", "W", "E", "R">>) >> ],
    [ label |-> "Concat",
      rgx |-> << Literal(<<"|", "|">>),
              Call(<<"C", "O", "N", "C", "A", "T">>) >> ],
    [ label |-> "Substring",
      rgx |-> << Call(<<"S", "U", "B", "S", "T", "R">>),
              Call(<<"S", "U", "B", "S", "T", "R", "I", "N", "G">>) >> ],
    [ label |-> "Replace",
      rgx |-> << Call(<<"R", "E", "P", "L", "A", "C", "E">>) >> ],
    [ label |-> "Length",
      rgx |-> << Call(<<"L", "E", "N", "G", "T", "H">>),
              Call(<<"L", "E", "N">>) >> ],
    [ label |-> "Position",
      rgx |-> << Call(<<"C", "H", "A", "R", "I", "N", "D", "E", "X">>),
              Call(<<"P", "O", "S", "I", "T", "I", "O", "N">>),
              Call(<<"I", "N", "S", "T", "R">>) >> ],
    [ label |-> "Left Pad",
      rgx |-> << Call(<<"L", "P", "A", "D">>) >> ],
    [ label |-> "Right Pad",
      rgx |-> << Call(<<"R", "P", "A", "D">>) >> ],
    [ label |-> "Round",
      rgx |-> << Call(<<"R", "O", "U", "N", "D">>) >> ],
    [ label |-> "Ceiling",
      rgx |-> << Call(<<"C", "E", "I", "L">>),
              Call(<<"C", "E", "I", "L", "I", "N", "G">>) >> ],
    [ label |-> "Floor",
      rgx |-> << Call(<<"F", "L", "O", "O", "R">>) >> ],
    [ label |-> "Absolute",
      rgx |-> << Call(<<"A", "B", "S">>) >> ],
    [ label |-> "Modulo",
      rgx |-> << Call(<<"M", "O", "D">>) >> ],
    [ label |-> "Power",
      rgx |-> << Call(<<"P", "O", "W", "E", "R">>) >> ],
    [ label |-> "Square Root",
      rgx |-> << Call(<<"S", "Q", "R", "T">>) >> ],
    [ label |-> "Now",
      rgx |-> << Call(<<"G", "E", "T", "D", "A", "T", "E">>),
              Call(<<"N", "O", "W">>),
              Word(<<"C", "U", "R", "R", "E", "N", "T", "_", "T", "I", "M", "E", "S", "T", "A", "M", "P">>) >> ],
    [ label |-> "Date Add",
      rgx |-> << Call(<<"D", "A", "T", "E", "A", "D", "D">>),
              Call(<<"D", "A", "T", "E", "_", "A", "D", "D">>) >> ],
    [ label |-> "Date Diff",
      rgx |-> << Call(<<"D", "A", "T", "E", "D", "I", "F", "F">>),
              Call(<<"D", "A", "T", "E", "_", "D", "I", "F", "F">>) >> ],
    [ label |-> "Extract/Datepart",
      rgx |-> << Call(<<"E", "X", "T", "R", "A", "C", "T">>),
              Call(<<"D", "A", "T", "E", "P", "A", "R", "T">>) >> ],
    [ label |-> "Format/To Char",
      rgx |-> << Call(<<"F", "O", "R", "M", "A", "T">>),
              Call(<<"T", "O", "_", "C", "H", "A", "R">>) >> ],
    [ label |-> "CASE",
      rgx |-> << Word(<<"C", "A", "S", "E">>) >> ],
    [ label |-> "Coalesce",
      rgx |-> << Call(<<"C", "O", "A", "L", "E", "S", "C", "E">>) >> ],
    [ label |-> "NullIf",
      rgx |-> << Call(<<"N", "U", "L", "L", "I", "F">>) >> ],
    [ label |-> "IsNull/NVL",
      rgx |-> << Call(<<"I", "S", "N", "U", "L", "L">>),
              Call(<<"N", "V", "L">>) >> ],
    [ label |-> "Cast",
      rgx |-> << Call(<<"C", "A", "S", "T">>) >> ],
    [ label |-> "Convert",
      rgx |-> << Call(<<"C", "O", "N", "V", "E", "R", "T">>) >> ],
    [ label |-> "Aggregate SUM",
      rgx |-> << Call(<<"S", "U", "M">>) >> ],
    [ label |-> "Aggregate AVG",
      rgx |-> << Call(<<"A", "V", "G">>) >> ],
    [ label |-> "Aggregate COUNT",
      rgx |-> << Call(<<"C", "O", "U", "N", "T">>) >> ],
    [ label |-> "Aggregate MIN",
      rgx |-> << Call(<<"M", "I", "N">>) >> ],
    [ label |-> "Aggregate MAX",
      rgx |-> << Call(<<"M", "A", "X">>) >> ],
    [ label |-> "Row Number",
      rgx |-> << Call(<<"R", "O", "W", "_", "N", "U", "M", "B", "E", "R">>) >> ],
    [ label |-> "Rank",
      rgx |-> << Call(<<"R", "A", "N", "K">>) >> ],
    [ label |-> "Dense Rank",
      rgx |-> << Call(<<"D", "E", "N", "S", "E", "_", "R", "A", "N", "K">>) >> ],
    [ label |-> "Lag",
      rgx |-> << Call(<<"L", "A", "G">>) >> ],
    [ label |-> "Lead",
      rgx |-> << Call(<<"L", "E", "A", "D">>) >> ],
    [ label |-> "Regex",
      rgx |-> << Family(<<"R", "E", "G", "E", "X", "P", "_">>) >> ]
>>

\* Variant of first_match without the break: the last pattern that matches.
RECURSIVE last_match(_, _)
last_match(expr, k) ==
    IF k > Len(patterns) THEN 0
    ELSE LET later == last_match(expr, k + 1)
         IN  IF later # 0 THEN later
             ELSE IF re_search(patterns[k].rgx, expr) THEN k ELSE 0

\* for label, rgx in patterns: if re.search(...): ... break -- the position of
\* the first pattern, from the k-th on, that matches, 0 when none does
RECURSIVE first_match(_, _)
first_match(expr, k) ==
    IF k > Len(patterns) THEN 0
    ELSE IF re_search(patterns[k].rgx, expr) THEN k
         ELSE first_match(expr, k + 1)

\* expr if len(expr) <= 160 else (expr[:157] + "...")
shown(expr) ==
    IF Len(expr) <= 160 THEN expr ELSE SubSeq(expr, 1, 157) \o <<".", ".", ".">>

\* "".join(cs): the str whose characters are cs
RECURSIVE Text(_)
Text(cs) ==
    IF cs = << >> THEN ""
    ELSE IF Len(cs) = 1 THEN cs[1]
    ELSE LET half == Len(cs) \div 2
         IN  Text(SubSeq(cs, 1, half)) \o Text(SubSeq(cs, half + 1, Len(cs)))

\* the characters U+2022 and U+2192 of the bullet line
Bullet == "<U+2022>"
Arrow == "<U+2192>"

\* f"<bullet> {label}: {tname}.{pport} <arrow> {shown}"
bullet_line(label, tname, pport, expr) ==
    Bullet \o " " \o label \o ": " \o tname \o "." \o pport \o " " \o Arrow
        \o " " \o Text(shown(expr))

\* expr of a row: (row.get("Expression") or "").strip()
row_expr(row) == strip(OrEmpty(row.Expression))

\* the lines after the loop body has run for one row
row_lines(row, lines_) ==
    LET expr == row_expr(row)
        tname == Or(row.Transformation, "Transformation")
        pport == Or(row.Port_Name, "Port")
        k == first_match(expr, 1)
    IN  IF expr = << >> \/ k = 0
        THEN lines_
        ELSE Append(lines_, bullet_line(patterns[k].label, tname, pport, expr))

\* the loop ends after this row; `continue` passes over the test
row_breaks(row, lines_, max_lines_) ==
    row_expr(row) # << >> /\ Len(lines_) >= max_lines_

TransRow(t, p, e) == [ Transformation |-> t, Port_Name |-> p, Expression |-> e ]

TransRowPool ==
    { TransRow("EXP_A", "o1",
               <<"U", "P", "P", "E", "R", "(", "T", "R", "I", "M", "(", "f", "1", ")", ")">>),
      TransRow("EXP_A", "o2",
               <<"u", "p", "p", "e", "r", " ", "(", "l", "t", "r", "i", "m", "(">>
                   \o [i \in 1..160 |-> "x"] \o <<")", ")">>),
      TransRow(None, "",
               <<" ", "a", " ", "|", "|", " ", "b">>),
      TransRow("EXP_A", "f1", NoText),
      TransRow("EXP_A", None,
               <<" ", "\t">>),
      TransRow("LKP_B", "Lookup condition",
               <<"c", "a", "s", "e", "_", "i", "d", " ", "=", " ", "M", "Y", "T", "R", "I", "M", "(", "f", "1", ")">>) }

\* the dicts given as tabs: Transformations present, or the key missing
TabsValues ==
    { [ _empty_tabs EXCEPT !["Transformations"] = rows ] :
        rows \in SeqsUpTo(TransRowPool, MaxTrans) }
    \cup { [ n \in TableNames \ { "Transformations" } |-> << >> ] }

\* trans_df is None or trans_df.empty
NoTransformations ==
    "Transformations" \notin DOMAIN tabs \/ tabs["Transformations"] = << >>

InitDetect ==
    /\ pc = "call"
    /\ tabs \in TabsValues
    /\ max_lines \in MaxLinesValues
    /\ lines = << >>
    /\ examined = 0
    /\ xml_bytes = NoneBytes /\ meta = DefaultMeta /\ conn_index = << >>
    /\ MapperIdle
    /\ DdlIdle

\* lines 395-398: the early return, or entry into the loop
detect_enter ==
    /\ pc = "call"
    /\ lines' = << >>
    /\ pc' = IF NoTransformations THEN "return" ELSE "loop"
    /\ UNCHANGED <<xml_bytes, tabs, meta, conn_index, mapper_vars, ddl_vars,
                   max_lines, examined>>

\* one pass of the loop over trans_df.iterrows()
detect_row ==
    /\ pc = "loop"
    /\ examined < Len(tabs["Transformations"])
    /\ LET row == tabs["Transformations"][examined + 1]
           after == row_lines(row, lines)
       IN  /\ lines' = after
           /\ pc' = IF row_breaks(row, after, max_lines) THEN "return" ELSE "loop"
    /\ examined' = examined + 1
    /\ UNCHANGED <<xml_bytes, tabs, meta, conn_index, mapper_vars, ddl_vars, max_lines>>

\* the iterator is exhausted: return lines
detect_exhausted ==
    /\ pc = "loop"
    /\ examined = Len(tabs["Transformations"])
    /\ pc' = "return"
    /\ UNCHANGED <<xml_bytes, tabs, meta, conn_index, mapper_vars, ddl_vars, detect_vars>>

NextDetect == detect_enter \/ detect_row \/ detect_exhausted

SpecDetect == InitDetect /\ [][NextDetect]_vars

(***************************************************************************)
(* Properties of map_type_for_db                                           *)
(***************************************************************************)

\* the five dialect names
Dialects == { "oracle", "sqlserver", "postgres", "mysql", "snowflake" }

\* d spells the dialect name n, in this or another letter case
Spells(d, n) == d = n \/ <<d, n>> \in { <<"ORACLE", "oracle">>, <<"Snowflake", "snowflake">> }

\* a value that is present and made of decimal digits only
AllDigits(v) == v # None /\ Chars[v] # << >> /\ \A i \in 1..Len(Chars[v]) : Chars[v][i] \in Digits

\* C6 as claimed: with a dialect name outside the five, map_type_for_db
\* returns what it returns for "oracle", whatever the datatype, precision and
\* scale.
C6_UnrecognizedLikeOracle ==
    (Returned /\ db \notin Dialects) =>
        type_literal = map_type_for_db_result(datatype, precision, scale, "oracle")

\* C6 amended: with a dialect outside the five names, map_type_for_db behaves
\* like oracle only when the dialect is absent or empty (or spells "oracle" in
\* another letter case); a name that spells another of the five in another
\* case behaves like that dialect; for every other name it returns
\* "VARCHAR(255)" whatever the datatype, precision and scale.
C6_UnrecognizedFallback ==
    (Returned /\ db \notin Dialects) =>
        IF db = None \/ db = "" \/ Spells(db, "oracle")
        THEN type_literal = map_type_for_db_result(datatype, precision, scale, "oracle")
        ELSE IF \E n \in Dialects : Spells(db, n)
        THEN \A n \in Dialects : Spells(db, n) =>
                type_literal = map_type_for_db_result(datatype, precision, scale, n)
        ELSE type_literal = "VARCHAR(255)"

\* an unrecognised dialect with a numeric type that oracle would map to
\* NUMBER(p,s)
C6_Witness ==
    /\ Returned /\ db = "db2"
    /\ datatype = "NUMBER" /\ AllDigits(precision) /\ AllDigits(scale)
    /\ type_literal = "VARCHAR(255)"
    /\ map_type_for_db_result(datatype, precision, scale, "oracle") # "VARCHAR(255)"

\* the decimal kind of a dialect and its numeric default
DecimalKind(d) ==
    CASE d \in { "oracle", "snowflake" } -> "NUMBER"
      [] d = "postgres"                  -> "NUMERIC"
      [] d \in { "sqlserver", "mysql" }  -> "DECIMAL"

NumericDefault(d) ==
    CASE d \in { "oracle", "snowflake" } -> "NUMBER"
      [] d = "postgres"                  -> "NUMERIC"
      [] d \in { "sqlserver", "mysql" }  -> "DECIMAL(38,10)"

\* C7: for each of the five dialects and each of NUMBER, DECIMAL, NUMERIC the
\* result is kind(p,s) with the given digit strings when precision and scale
\* are both all digits, kind(p) when only the precision is, and the dialect
\* default when the precision is absent or not all digits, whatever the scale.
C7_NumericFormatting ==
    (Returned /\ db \in Dialects /\ datatype \in { "NUMBER", "DECIMAL", "NUMERIC" }) =>
        type_literal =
            IF AllDigits(precision) /\ AllDigits(scale)
            THEN DecimalKind(db) \o "(" \o precision \o "," \o scale \o ")"
            ELSE IF AllDigits(precision)
            THEN DecimalKind(db) \o "(" \o precision \o ")"
            ELSE NumericDefault(db)

\* a two-digit precision with a scale that is present and not a number
C7_Witness ==
    /\ Returned /\ db = "postgres" /\ datatype = "NUMERIC"
    /\ precision = "10" /\ scale = "x"
    /\ type_literal = "NUMERIC(10)"

\* the variable-length kind of a dialect and its default
VarcharKind(d) == IF d = "oracle" THEN "VARCHAR2" ELSE "VARCHAR"

VarcharDefault(d) ==
    CASE d = "oracle"    -> "VARCHAR2(255)"
      [] d = "snowflake" -> "VARCHAR"
      [] OTHER           -> "VARCHAR(255)"

\* a value that is present, all digits, and not zero
PositiveInteger(v) == AllDigits(v) /\ \E i \in 1..Len(Chars[v]) : Chars[v][i] # "0"

\* what C8 prescribes for a character type, given which precisions count
CharacterLiteral(usable) ==
    IF datatype = "CHAR"
    THEN (IF usable THEN "CHAR(" \o precision \o ")" ELSE "CHAR(1)")
    ELSE (IF usable THEN VarcharKind(db) \o "(" \o precision \o ")" ELSE VarcharDefault(db))

\* C8 as claimed: for every dialect a VARCHAR, VARCHAR2 or CHAR is formatted
\* with the given precision only when the precision is a valid positive
\* integer; for every other precision (absent, blank, non-numeric, or "0") the
\* variable-length type gets the dialect default width and CHAR gets length 1.
C8_CharacterPositivePrecision ==
    (Returned /\ db \in Dialects /\ datatype \in { "VARCHAR", "VARCHAR2", "CHAR" }) =>
        type_literal = CharacterLiteral(PositiveInteger(precision))

\* What the code does for the character types: every all-digit precision is
\* used, zero included.
C8_CharacterDigitPrecision ==
    (Returned /\ db \in Dialects /\ datatype \in { "VARCHAR", "VARCHAR2", "CHAR" }) =>
        type_literal = CharacterLiteral(AllDigits(precision))

(***************************************************************************)
(* Properties of build_target_sql                                          *)
(***************************************************************************)

\* the call has ended, by returning or by raising
Ended == pc \in { "return", "raise" }

\* v equals "NOTNULL" compared case-insensitively
IsNotNullMarker(v) == v \in { "NOTNULL", "notnull", "NotNull" }

\* v equals "PRIMARY KEY" compared case-insensitively
IsPrimaryKeyMarker(v) == v \in { "PRIMARY KEY", "primary key", "Primary Key" }

\* the table name the statements use
TableName == IF meta.target_name \in { None, "" } THEN "TARGET_TABLE" ELSE meta.target_name

\* the column definition the specification gives row k
ColumnDefinition(k) ==
    "  " \o Str(target_df[k].Column) \o " "
         \o map_type_for_db_result(target_df[k].Datatype, target_df[k].Precision,
                                   target_df[k].Scale, target_db)
         \o (IF IsNotNullMarker(target_df[k].Nullable) THEN " NOT NULL" ELSE "")

\* the column list of the script is one definition per row, in table order
ColumnsAsSpecified ==
    /\ Len(sql.cols) = Len(target_df)
    /\ \A k \in 1..Len(target_df) : sql.cols[k] = ColumnDefinition(k)
    /\ Len(sql.create) >= 3
    /\ sql.create[1] = "CREATE TABLE " \o TableName \o " ("
    /\ sql.create[2] = JoinWith(sql.cols, ",\n")
    /\ sql.create[3] = ");"

\* C9 as claimed: for every non-empty Target Fields table build_target_sql
\* emits one column definition per row, in table order, "<name> <type>"
\* followed by " NOT NULL" exactly when the row's Nullable equals "NOTNULL"
\* case-insensitively.
C9_OneColumnPerRow ==
    (Ended /\ target_df # << >>) => (pc = "return" /\ ColumnsAsSpecified)

\* What holds of the code: the column list is as C9 says whenever the call
\* returns; it does not return when a primary-key row has no column name.
C9_ColumnsWhenReturned ==
    /\ (pc = "return" /\ target_df # << >>) => ColumnsAsSpecified
    /\ pc = "raise" =>
          \E k \in 1..Len(target_df) :
              IsPrimaryKeyMarker(target_df[k].Key_Type) /\ target_df[k].Column = None

\* the names of the primary-key columns, in table order
PrimaryKeyColumns ==
    LET keys == SelectRows(target_df,
                           { k \in 1..Len(target_df) : IsPrimaryKeyMarker(target_df[k].Key_Type) }, 1)
    IN  [ k \in 1..Len(keys) |-> keys[k].Column ]

AlterStatement ==
    "ALTER TABLE " \o TableName \o " ADD CONSTRAINT PK_" \o TableName
        \o " PRIMARY KEY (" \o JoinWith(PrimaryKeyColumns, ", ") \o ");"

\* C10 as claimed: for every dialect selector, recognised or not, when some
\* row is a primary key the script is the CREATE TABLE statement followed by
\* one ALTER TABLE ... ADD CONSTRAINT PK_<name> PRIMARY KEY (...) statement
\* listing exactly those columns in table order; when no row is a primary
\* key there is no constraint statement.
C10_AlterForEveryDialect ==
    Ended =>
        /\ pc = "return"
        /\ IF PrimaryKeyColumns # << >>
           THEN Len(sql.create) = 4 /\ sql.create[4] = AlterStatement
           ELSE Len(sql.create) \in { 0, 3 }

\* What holds of the code: the ALTER statement for the five dialects in any
\* letter case and for an empty or absent selector, a comment line for any
\* other selector, and no result at all when a primary-key row has no column
\* name.
C10_ConstraintByDialect ==
    Ended =>
        IF \E k \in 1..Len(PrimaryKeyColumns) : PrimaryKeyColumns[k] = None
        THEN pc = "raise"
        ELSE /\ pc = "return"
             /\ IF PrimaryKeyColumns = << >> THEN Len(sql.create) \in { 0, 3 }
                ELSE /\ Len(sql.create) = 4
                     /\ sql.create[4] =
                          IF target_db \in { None, "" } \/ \E n \in Dialects : Spells(target_db, n)
                          THEN AlterStatement
                          ELSE "-- PRIMARY KEY (" \o JoinWith(PrimaryKeyColumns, ", ") \o ")"

\* an unrecognised dialect, a column that is no key followed by a named
\* primary-key column marked in lower case: the script ends with the comment
\* line
C10_Witness ==
    /\ pc = "return" /\ target_db = "db2"
    /\ Len(target_df) = 2
    /\ Len(PrimaryKeyColumns) = 1
    /\ PrimaryKeyColumns[1] # None
    /\ IsPrimaryKeyMarker(target_df[2].Key_Type)
    /\ target_df[2].Key_Type # "PRIMARY KEY"
    /\ Len(sql.create) = 4
    /\ sql.create[4] = "-- PRIMARY KEY (" \o target_df[2].Column \o ")"

(***************************************************************************)
(* Properties of detect_transformation_logic                               *)
(***************************************************************************)

\* the rows the loop has examined so far
ExaminedRows == 1..examined

\* the stripped expression of the k-th row of the Transformations table
ExprOf(k) == row_expr(tabs["Transformations"][k])

\* the r-th rule of the bank matches the k-th row's expression
RuleMatches(r, k) == re_search(patterns[r].rgx, ExprOf(k))

\* the examined rows whose expression matches at least one rule
LabelledRows ==
    { k \in ExaminedRows : \E r \in 1..Len(patterns) : RuleMatches(r, k) }

\* the first rule in bank order that matches the k-th row's expression
FirstRule(k) ==
    CHOOSE r \in 1..Len(patterns) :
        RuleMatches(r, k) /\ \A q \in 1..(r - 1) : ~RuleMatches(q, k)

\* the finding of the k-th row when it carries the label of rule r
FindingOf(k, r) ==
    LET row == tabs["Transformations"][k]
    IN  bullet_line(patterns[r].label, Or(row.Transformation, "Transformation"),
                    Or(row.Port_Name, "Port"), ExprOf(k))

\* the j-th row of a set of rows, in table order
Nth(rows, j) ==
    CHOOSE k \in rows : Cardinality({ m \in rows : m <= k }) = j

\* C11: the findings are, in table order, exactly one per examined row whose
\* non-empty expression matches some rule, each with the label of the first
\* rule in bank order that matches (case-insensitively); an examined row
\* whose expression is empty or matches no rule contributes nothing.
C11_FirstRuleLabels ==
    LET labelled == LabelledRows
    IN  /\ Len(lines) = Cardinality(labelled)
        /\ \A j \in 1..Len(lines) :
               LET k == Nth(labelled, j)
               IN  lines[j] = FindingOf(k, FirstRule(k))

\* a returned scan that met an expression with both an UPPER( and a TRIM(
\* call, labelled Trim, and a non-empty expression that matches no rule
C11_Witness ==
    /\ Returned
    /\ \E k \in ExaminedRows :
           /\ RuleMatches(1, k) /\ RuleMatches(4, k)
           /\ patterns[1].label = "Trim" /\ patterns[4].label = "Uppercase"
           /\ \E j \in 1..Len(lines) :
                  lines[j] = "<U+2022> Trim: EXP_A.o1 <U+2192> UPPER(TRIM(f1))"
    /\ \E m \in ExaminedRows : ExprOf(m) # << >> /\ m \notin LabelledRows
    /\ Len(lines) = 1

\* C12: for every table and every max_lines >= 0 the returned findings number
\* at most max_lines and come in table order, and once max_lines findings
\* exist the scan has halted: the last row examined is the one that produced
\* the last allowed finding.
C12_AtMostMaxLines ==
    Returned =>
        LET labelled == LabelledRows
        IN  /\ Len(lines) <= max_lines
            /\ Len(lines) = Cardinality(labelled)
            /\ \A j \in 1..Len(lines) :
                   \E r \in 1..Len(patterns) : lines[j] = FindingOf(Nth(labelled, j), r)
            /\ (max_lines > 0 /\ Len(lines) = max_lines) =>
                   examined = Nth(labelled, max_lines)

====
